---- MODULE Spec2Model ----
(***************************************************************************)
(* Bulk courier checker (src/app.py): the upload handler, the batch        *)
(* scheduler, the per-batch worker pool and the lookup with its retry loop,*)
(* over the two process-wide objects phone_cache and processing_stats.     *)
(*                                                                         *)
(* A phone number is a sequence of characters: an ASCII digit is 0..9, any  *)
(* other character is a code above 9 (Plus, Space, Dash, Bn7).             *)
(***************************************************************************)
EXTENDS Integers, Sequences, FiniteSets, TLC

VARIABLES
    phone_cache,       \* app.py:44   identifier -> (data, error), shared
    processing_stats,  \* app.py:46   total / success / failed / retries, shared
    pc,                \* per request thread: position in upload_file
    raw_numbers,       \* per request thread: upload_file's raw_numbers
    valid_numbers,     \* per request thread: upload_file's valid_numbers
    invalid_numbers,   \* per request thread: upload_file's invalid_numbers
    unique_numbers,    \* per request thread: upload_file's unique_numbers
    duplicates_removed,\* per request thread: upload_file's duplicates_removed
    batch_i,           \* per request thread: loop variable i of the batch loop
    all_results,       \* per request thread: upload_file's all_results
    results,           \* per request thread: process_phone_batch_robust's results
    futs,              \* per request thread: the futures of the current batch
    report,            \* per request thread: the statistics create_excel_report read
    runs,              \* number of POST requests accepted so far
    timeline,          \* per request thread: batches and pacing pauses so far
    cache_lock,        \* app.py:43   the thread that holds cache_lock
    stats_lock,        \* app.py:45   the thread that holds stats_lock
    incs               \* executions of a `+= 1` on each counter since the reset

vars == <<phone_cache, processing_stats, pc, raw_numbers, valid_numbers,
          invalid_numbers, unique_numbers, duplicates_removed, batch_i,
          all_results, results, futs, report, runs, timeline, cache_lock,
          stats_lock, incs>>

\* Python's None where a (data, error) component is expected.
None == "None"
\* Python's None where a phone string is expected: no sequence of characters.
NoPhone == <<-1>>

\* Characters that are not digits.
Plus == 10
Space == 11
Dash == 12
\* A decimal digit outside ASCII (BENGALI DIGIT SEVEN, U+09ED): the uploaded
\* file is decoded as UTF-8 (app.py:1035) and the pattern \D of a str regex
\* does not match it.
Bn7 == 13

(***************************************************************************)
(* Bounds of the model.                                                    *)
(***************************************************************************)
\* app.py:35 sets MAX_WORKERS = 8; the model runs a pool of this size.
MAX_WORKERS == 2
\* app.py:36 sets BATCH_SIZE = 30; the model cuts batches of this size, one
\* more than the pool has workers.
BATCH_SIZE == 3
\* app.py:39 sets MAX_RETRIES = 3; the model allows this many retries.
MAX_RETRIES == 2
\* POST requests handled by the process in one behaviour.
MaxRuns == 2
\* Request threads of the server (app.run serves each request on a thread of
\* its own, app.py:1153).
NumHandlers == 2
\* Digits of the shortest and of the longest line of an uploaded file that
\* the normalizer is run on.
MinTokLen == 10
MaxTokLen == 14
\* Lines of an uploaded file that the deduplication is run on.
MaxLines == 3

Handlers == 1..NumHandlers

\* Threads: <<h, 0>> is request thread h, <<h, j>> the pool worker that runs
\* the j-th call of h's batch; Free where a lock has no holder.
Free == <<0, 0>>

\* Variant: the block is entered without the lock.
LockFree_Ignored(lock) == TRUE

\* Lock.acquire of `with lock:` returns when no thread holds the lock.
LockFree(lock) == lock = Free

\* Variant: the thread keeps the lock past the end of the block.
Released_Kept(lock) == lock

\* The end of a `with lock:` block, or a return out of it: Lock.release.
Released(lock) == Free

(***************************************************************************)
(* Normalizer: validate_phone_number, app.py:91-100.                       *)
(***************************************************************************)
\* What \d matches in a str pattern: every Unicode decimal digit.
IsDigit(c) == c \in 0..9 \/ c = Bn7

\* re.sub(r'\D', '', phone)
StripNonDigits(phone) == SelectSeq(phone, IsDigit)

\* str.startswith
StartsWith(s, prefix) ==
    /\ Len(s) >= Len(prefix)
    /\ SubSeq(s, 1, Len(prefix)) = prefix

\* Variant: phone_clean[3:].
validate_phone_number_StripsThree(phone) ==
    LET phone_clean == StripNonDigits(phone) IN
    IF Len(phone_clean) = 11 /\ StartsWith(phone_clean, <<0, 1>>)
    THEN phone_clean
    ELSE IF Len(phone_clean) = 13 /\ StartsWith(phone_clean, <<8, 8, 0>>)
    THEN SubSeq(phone_clean, 4, Len(phone_clean))
    ELSE NoPhone

validate_phone_number(phone) ==
    LET phone_clean == StripNonDigits(phone) IN
    IF Len(phone_clean) = 11 /\ StartsWith(phone_clean, <<0, 1>>)
    THEN phone_clean
    ELSE IF Len(phone_clean) = 13 /\ StartsWith(phone_clean, <<8, 8, 0>>)
    THEN SubSeq(phone_clean, 3, Len(phone_clean))
    ELSE NoPhone

(***************************************************************************)
(* Uploaded files.                                                         *)
(***************************************************************************)
\* "0170000000k"
Tok(k) == <<0, 1, 7, 0, 0, 0, 0, 0, 0, 0, k>>
\* "+880 170000000k"
Tok13(k) == <<Plus, 8, 8, Space>> \o Tok(k)
\* "12345"
BadTok == <<1, 2, 3, 4, 5>>

\* n distinct numbers
Distinct(n) == [k \in 1..n |-> Tok(k)]

\* The files a POST can carry: one more number than a batch holds, as many
\* numbers as a batch holds, a file with repeats, a 13-digit form and a bad
\* line, and a file without a valid number.
Uploads ==
    {Distinct(BATCH_SIZE + 1), Distinct(BATCH_SIZE),
     <<Tok(1), Tok13(1), BadTok, Tok(1)>>, <<BadTok>>}

\* Files that hold one number, in either form and with or without a bad line.
SingleUploads == {<<Tok(1)>>, <<Tok(2)>>, <<BadTok, Tok13(1)>>}

\* Lines for the normalizer: a leading group of digits, then one digit
\* repeated up to a length around 11 and 13, written plainly, with a leading
\* "+", with a "-" after the third digit, or with a last digit outside ASCII.
Prefixes == {<<0, 1>>, <<0, 2>>, <<8, 8, 0, 1>>, <<8, 8, 0, 2>>, <<8, 8, 1>>}

FillDigits == {1, 7}

Filled(prefix, d, n) == prefix \o [k \in 1..(n - Len(prefix)) |-> d]

Decorated(t) ==
    {t,
     <<Plus>> \o t,
     SubSeq(t, 1, 3) \o <<Dash>> \o SubSeq(t, 4, Len(t)),
     SubSeq(t, 1, Len(t) - 1) \o <<Bn7>>}

Tokens ==
    UNION {Decorated(Filled(prefix, d, n)) :
               prefix \in Prefixes, d \in FillDigits, n \in MinTokLen..MaxTokLen}

\* Lines for the deduplication: two numbers, one of them in both forms, and a
\* bad line.
DedupTokens == {Tok(1), Tok(2), Tok13(1), BadTok}

\* Files of one line for the normalizer and of up to MaxLines lines for the
\* deduplication.
InputFiles ==
    {<<t>> : t \in Tokens}
        \cup UNION {[1..n -> DedupTokens] : n \in 1..MaxLines}

(***************************************************************************)
(* upload_file, app.py:1049-1072: validation and deduplication.            *)
(***************************************************************************)
RECURSIVE ValidNumbers(_)
ValidNumbers(raw) ==
    IF raw = <<>> THEN <<>>
    ELSE LET validated == validate_phone_number(Head(raw)) IN
         IF validated # NoPhone /\ validated # <<>>
         THEN <<validated>> \o ValidNumbers(Tail(raw))
         ELSE ValidNumbers(Tail(raw))

RECURSIVE InvalidNumbers(_)
InvalidNumbers(raw) ==
    IF raw = <<>> THEN <<>>
    ELSE LET validated == validate_phone_number(Head(raw)) IN
         IF validated # NoPhone /\ validated # <<>>
         THEN InvalidNumbers(Tail(raw))
         ELSE <<Head(raw)>> \o InvalidNumbers(Tail(raw))

Range(s) == {s[k] : k \in 1..Len(s)}

RECURSIVE UniqueFrom(_, _)
UniqueFrom(valid, seen) ==
    IF valid = <<>> THEN <<>>
    ELSE IF Head(valid) \in seen
    THEN UniqueFrom(Tail(valid), seen)
    ELSE <<Head(valid)>> \o UniqueFrom(Tail(valid), seen \cup {Head(valid)})

\* Variant: the last occurrence of each identifier is kept.
UniqueNumbers_KeepsLast(valid) ==
    LET rev(s) == [k \in 1..Len(s) |-> s[Len(s) + 1 - k]]
    IN rev(UniqueFrom(rev(valid), {}))

\* app.py:1064-1070
UniqueNumbers(valid) == UniqueFrom(valid, {})

\* Variant: the number of identifiers that occur more than once.
DuplicatesRemoved_CountsRepeatedValues(valid, unique) ==
    Cardinality({p \in Range(valid) :
                    Cardinality({k \in 1..Len(valid) : valid[k] = p}) > 1})

\* app.py:1072
DuplicatesRemoved(valid, unique) == Len(valid) - Len(unique)

(***************************************************************************)
(* Remote lookup service and transport.                                    *)
(***************************************************************************)
\* What one call of session.post(...) followed by the status dispatch can
\* observe: a status code, or the class of the exception raised inside the
\* try block (requests.exceptions.Timeout, another RequestException, any
\* other Exception).
Outcomes == {"200", "429", "500", "timeout", "request_exception", "unexpected"}

\* response.json() of a 200 response: the decoded body, which is None when
\* the body is the JSON text null.
Payloads == {"payload", None}

\* The pipeline around a lookup hands the payload on without looking at it.
PipelinePayloads == {"payload"}

(***************************************************************************)
(* Sleeps of the retry loop, in milliseconds.                              *)
(***************************************************************************)
\* app.py:38 sets BASE_DELAY = 0.3 (seconds).
BASE_DELAY == 300
\* app.py:40
BACKOFF_FACTOR == 2
\* app.py:153: the base of the delay after a 429.
RATE_LIMIT_FACTOR == 3

RECURSIVE Pow(_, _)
Pow(b, n) == IF n = 0 THEN 1 ELSE b * Pow(b, n - 1)

\* app.py:117: delay = BASE_DELAY * (BACKOFF_FACTOR ** attempt) + jitter
BackoffDelay(attempt, jitter) == BASE_DELAY * Pow(BACKOFF_FACTOR, attempt) + jitter

\* app.py:153: rate_limit_delay = BASE_DELAY * (3 ** attempt) + jitter
RateLimitDelay(attempt, jitter) == BASE_DELAY * Pow(RATE_LIMIT_FACTOR, attempt) + jitter

\* app.py:117: random.uniform(0.1, 0.5), its two ends.
BackoffJitter == {100, 500}

\* app.py:153: random.uniform(1, 3), its two ends.
RateLimitJitter == {1000, 3000}

\* The value the code assigns to last_error for a failed attempt.
ErrorReason(outcome) ==
    CASE outcome = "429" -> "Rate limit exceeded"
      [] outcome = "500" -> "API Error 500"
      [] outcome = "timeout" -> "Request timeout"
      [] outcome = "request_exception" -> "Request failed"
      [] outcome = "unexpected" -> "Unexpected error"

\* The outcomes that differ in what the pipeline around a lookup can see: a
\* success, a failure that is retried and a failure that is not.  The other
\* retried outcomes differ from "timeout" in the reason string alone.
PipelineOutcomes == {"200", "timeout", "unexpected"}

\* Retry(total=MAX_RETRIES, ...) mounted on the session, app.py:58-74: the
\* adapter sends the request again after a connection error, up to `total`
\* times, before session.post returns or raises.  (POST is not among
\* urllib3's retryable methods, so its status_forcelist does not apply.)
AdapterResends == 0..MAX_RETRIES

(***************************************************************************)
(* check_courier_api_with_retry, app.py:102-182.                           *)
(***************************************************************************)
\* A submitted call of check_courier_api_with_retry(phone).
\*   st          pending | ready | inflight | returned | collected
\*   attempt     the loop variable
\*   resp        what the latest attempt observed
\*   posts       calls of session.post made by this lookup
\*   wire        requests the transport sent for this lookup
\*   retry_incs  increments of processing_stats['retries'] by this lookup
\*   hit         the lookup returned from the cache
\*   wait        milliseconds slept since the latest response
\*   tmp         the counter value loaded by `processing_stats[c] += 1`
NewFuture(phone) ==
    [phone |-> phone, st |-> "pending", attempt |-> 0, last_error |-> None,
     resp |-> "none", result |-> <<None, None>>, posts |-> 0, wire |-> 0,
     retry_incs |-> 0, hit |-> FALSE, wait |-> 0, tmp |-> 0]

\* phone_cache[phone] = result
CachePut(cache, phone, result) ==
    [q \in (DOMAIN cache) \cup {phone} |-> IF q = phone THEN result ELSE cache[q]]

\* Variant: the first retry is not counted.
CountsRetry_SkipsFirst(attempt) == attempt > 1

\* app.py:116: every iteration but the first sleeps and counts a retry.
CountsRetry(attempt) == attempt > 0

\* Variant: every outcome is written to the cache.
CachesResult_All(outcome) == TRUE

\* app.py:134-139: the outcome whose result is written to phone_cache.
CachesResult(outcome) == outcome = "200"

\* Variant: range(max_attempts + 2).
LoopContinues_OneMore(outcome, attempt) ==
    /\ outcome \in {"429", "500", "timeout", "request_exception"}
    /\ attempt < MAX_RETRIES + 1

\* Variant: a 429 ends the loop.
LoopContinues_429GivesUp(outcome, attempt) ==
    /\ outcome \in {"500", "timeout", "request_exception"}
    /\ attempt < MAX_RETRIES

\* Variant: no break in the handler of an unexpected exception.
LoopContinues_RetriesUnexpected(outcome, attempt) ==
    /\ outcome \in {"429", "500", "timeout", "request_exception", "unexpected"}
    /\ attempt < MAX_RETRIES

\* app.py:113, 155, 162, 164-175: after this outcome at this attempt index the
\* for loop runs another iteration (429 and other statuses `continue`, Timeout
\* and RequestException fall to the end of the body, any other Exception
\* breaks, and range(max_attempts + 1) ends after index max_attempts).
LoopContinues(outcome, attempt) ==
    /\ outcome \in {"429", "500", "timeout", "request_exception"}
    /\ attempt < MAX_RETRIES

\* Variant: the reason of the first failed attempt is kept.
LastErrorAfter_KeepsFirst(last_error, outcome) ==
    IF last_error # None THEN last_error ELSE ErrorReason(outcome)

\* app.py:148, 158, 165, 169, 173: every failed attempt assigns last_error,
\* whatever it held.
LastErrorAfter(last_error, outcome) == ErrorReason(outcome)

\* Variant: a cache hit is counted as a success.
StatsAfterHit_CountsSuccess(stats) == [stats EXCEPT !.success = @ + 1]

\* app.py:106-109: the statistics after a cache hit.
StatsAfterHit(stats) == stats

\* Variant: a failure by an unexpected exception restarts the result list.
Collected_DropsEarlier(res, f) ==
    IF f.result[2] = "Unexpected error"
    THEN <<<<f.phone, f.result[1], f.result[2]>>>>
    ELSE Append(res, <<f.phone, f.result[1], f.result[2]>>)

\* Variant: a failed lookup leaves no tuple.
Collected_SkipsErrors(res, f) ==
    IF f.result[1] = None THEN res
    ELSE Append(res, <<f.phone, f.result[1], f.result[2]>>)

\* app.py:212-213: data, error = future.result(); results.append(...)
Collected(res, f) == Append(res, <<f.phone, f.result[1], f.result[2]>>)

\* Lookups of a batch a pool worker is executing.
Running(fs) ==
    {j \in 1..Len(fs) : fs[j].st \notin {"pending", "returned", "collected"}}

\* Variant: a pool that never runs a call.
WorkerFree_Never(fs) == FALSE

\* Variant: one thread for every submitted call.
WorkerFree_Unbounded(fs) == TRUE

\* app.py:196: ThreadPoolExecutor(max_workers=MAX_WORKERS) runs a queued call
\* when fewer than max_workers calls are running.
WorkerFree(fs) == Cardinality(Running(fs)) < MAX_WORKERS

\* Variant: the batch returns with the first result.
BatchDrained_FirstResult(fs) == \E j \in 1..Len(fs) : fs[j].st = "collected"

\* app.py:209-221: as_completed has yielded every future of the batch, so the
\* `with` block ends and the executor shuts down with nothing left to wait for.
BatchDrained(fs) == \A j \in 1..Len(fs) : fs[j].st = "collected"

\* Variant: the results of a batch are put in front.
Extended_InFront(all, res) == res \o all

\* app.py:1091: all_results.extend(batch_results)
Extended(all, res) == all \o res

(***************************************************************************)
(* Initial state: the module-level objects of app.py:42-51.                *)
(***************************************************************************)
ZeroStats == [total |-> 0, success |-> 0, failed |-> 0, retries |-> 0]

ZeroIncs == [success |-> 0, failed |-> 0, retries |-> 0]

Init ==
    /\ phone_cache = <<>>
    /\ processing_stats = ZeroStats
    /\ pc = [h \in Handlers |-> "idle"]
    /\ raw_numbers = [h \in Handlers |-> <<>>]
    /\ valid_numbers = [h \in Handlers |-> <<>>]
    /\ invalid_numbers = [h \in Handlers |-> <<>>]
    /\ unique_numbers = [h \in Handlers |-> <<>>]
    /\ duplicates_removed = [h \in Handlers |-> 0]
    /\ batch_i = [h \in Handlers |-> 0]
    /\ all_results = [h \in Handlers |-> <<>>]
    /\ results = [h \in Handlers |-> <<>>]
    /\ futs = [h \in Handlers |-> <<>>]
    /\ report = [h \in Handlers |-> ZeroStats]
    /\ runs = 0
    /\ timeline = [h \in Handlers |-> <<>>]
    /\ cache_lock = Free
    /\ stats_lock = Free
    /\ incs = ZeroIncs

(***************************************************************************)
(* upload_file, app.py:996-1137.                                           *)
(***************************************************************************)
\* app.py:998-1008 and 1041: a POST arrives; the statistics are reset and the
\* lines of the file are read.
StartRun(h, upload) ==
    /\ pc[h] = "idle"
    /\ runs < MaxRuns
    /\ LockFree(stats_lock)
    /\ runs' = runs + 1
    /\ processing_stats' = ZeroStats
    /\ incs' = ZeroIncs
    /\ raw_numbers' = [raw_numbers EXCEPT ![h] = upload]
    /\ pc' = [pc EXCEPT ![h] = "validate"]
    /\ UNCHANGED <<phone_cache, valid_numbers, invalid_numbers,
                   duplicates_removed, unique_numbers, batch_i,
                   all_results, results, futs, report, timeline, cache_lock,
                   stats_lock>>

\* app.py:1010-1045: a POST arrives whose file is refused before any line is
\* validated: no file part, no file name, a name that is not *.txt, more than
\* MAX_FILE_SIZE bytes, bytes that are not UTF-8, or no line that is not
\* blank.  The statistics have been reset by then (app.py:1001-1008).
RejectFile(h) ==
    /\ pc[h] = "idle"
    /\ runs < MaxRuns
    /\ LockFree(stats_lock)
    /\ runs' = runs + 1
    /\ processing_stats' = ZeroStats
    /\ incs' = ZeroIncs
    /\ pc' = [pc EXCEPT ![h] = "rejected"]
    /\ UNCHANGED <<phone_cache, raw_numbers, valid_numbers, invalid_numbers,
                   unique_numbers, duplicates_removed, batch_i, all_results,
                   results, futs, report, timeline, cache_lock, stats_lock>>

\* Variant: a file without a valid number is processed.
Rejects_Never(valid) == FALSE

\* app.py:1060: if not valid_numbers
Rejects(valid) == valid = <<>>

\* app.py:1049-1072: validate, reject a file without a valid number,
\* deduplicate.
Validate(h) ==
    /\ pc[h] = "validate"
    /\ LET valid == ValidNumbers(raw_numbers[h])
           unique == UniqueNumbers(valid)
       IN /\ valid_numbers' = [valid_numbers EXCEPT ![h] = valid]
          /\ invalid_numbers' = [invalid_numbers EXCEPT ![h] = InvalidNumbers(raw_numbers[h])]
          /\ IF Rejects(valid)
             THEN /\ pc' = [pc EXCEPT ![h] = "rejected"]
                  /\ UNCHANGED <<unique_numbers, duplicates_removed>>
             ELSE /\ pc' = [pc EXCEPT ![h] = "set_total"]
                  /\ unique_numbers' = [unique_numbers EXCEPT ![h] = unique]
                  /\ duplicates_removed' =
                         [duplicates_removed EXCEPT ![h] = DuplicatesRemoved(valid, unique)]
    /\ UNCHANGED <<phone_cache, processing_stats, raw_numbers, batch_i,
                   all_results, results, futs, report, runs, timeline,
                   cache_lock, stats_lock, incs>>

\* app.py:1076-1083
SetTotal(h) ==
    /\ pc[h] = "set_total"
    /\ LockFree(stats_lock)
    /\ processing_stats' = [processing_stats EXCEPT !.total = Len(unique_numbers[h])]
    /\ all_results' = [all_results EXCEPT ![h] = <<>>]
    /\ batch_i' = [batch_i EXCEPT ![h] = 0]
    /\ pc' = [pc EXCEPT ![h] = "loop"]
    /\ UNCHANGED <<phone_cache, raw_numbers, valid_numbers, invalid_numbers,
                   duplicates_removed, unique_numbers,
                   results, futs, report, runs, timeline, cache_lock,
                   stats_lock, incs>>

Min(a, b) == IF a < b THEN a ELSE b

\* app.py:1084
TotalBatches(unique) == (Len(unique) + BATCH_SIZE - 1) \div BATCH_SIZE

\* Variant: unique_numbers[:BATCH_SIZE], cut to the length of the true slice.
BatchSlice_FromStart(unique, i) ==
    SubSeq(unique, 1, Min(BATCH_SIZE, Len(unique) - i))

\* app.py:1087: unique_numbers[i:i + BATCH_SIZE]
BatchSlice(unique, i) == SubSeq(unique, i + 1, Min(i + BATCH_SIZE, Len(unique)))

\* app.py:1088
BatchNum(i) == (i \div BATCH_SIZE) + 1

\* app.py:191: the batches that start with time.sleep(uniform(1, 3)).
PausesBefore(batch_num) == batch_num > 1

\* Variant: a pause after every batch.
PausesAfter_Always(batch_num, total_batches) == TRUE

\* app.py:1098: the batches followed by time.sleep(uniform(2, 5)).
PausesAfter(batch_num, total_batches) == batch_num < total_batches

\* app.py:1086-1090, 186-196: the next batch is cut, the pause before it is
\* slept and its pool is created.
BatchBegin(h) ==
    /\ pc[h] = "loop"
    /\ batch_i[h] < Len(unique_numbers[h])
    /\ timeline' = [timeline EXCEPT ![h] =
                       @ \o (IF PausesBefore(BatchNum(batch_i[h]))
                             THEN <<"pause_before">> ELSE <<>>)
                         \o <<"batch">>]
    /\ results' = [results EXCEPT ![h] = <<>>]
    /\ futs' = [futs EXCEPT ![h] = <<>>]
    /\ pc' = [pc EXCEPT ![h] = "submit"]
    /\ UNCHANGED <<phone_cache, processing_stats, raw_numbers, valid_numbers, invalid_numbers,
                   duplicates_removed,
                   unique_numbers, batch_i, all_results, report, runs,
                   cache_lock, stats_lock, incs>>

\* app.py:200-206: executor.submit for the next phone of the batch.
Submit(h) ==
    /\ pc[h] = "submit"
    /\ LET phone_batch == BatchSlice(unique_numbers[h], batch_i[h])
           fs == Append(futs[h], NewFuture(phone_batch[Len(futs[h]) + 1]))
       IN /\ futs' = [futs EXCEPT ![h] = fs]
          /\ pc' = [pc EXCEPT ![h] =
                      IF Len(fs) = Len(phone_batch) THEN "collect" ELSE "submit"]
    /\ UNCHANGED <<phone_cache, processing_stats, raw_numbers, valid_numbers, invalid_numbers,
                   duplicates_removed,
                   unique_numbers, batch_i, all_results, results, report, runs,
                   timeline, cache_lock, stats_lock, incs>>

\* A pool worker takes the oldest pending call and runs app.py:105-111: the
\* cache check.
LookupStart(h, j) ==
    /\ j \in 1..Len(futs[h])
    /\ futs[h][j].st = "pending"
    /\ \A k \in 1..(j - 1) : futs[h][k].st # "pending"
    /\ WorkerFree(futs[h])
    /\ LockFree(cache_lock)
    /\ LET f == futs[h][j] IN
       IF f.phone \in DOMAIN phone_cache
       THEN /\ futs' = [futs EXCEPT ![h][j] =
                          [f EXCEPT !.st = "returned", !.hit = TRUE,
                                    !.result = phone_cache[f.phone]]]
            /\ processing_stats' = StatsAfterHit(processing_stats)
       ELSE /\ futs' = [futs EXCEPT ![h][j] = [f EXCEPT !.st = "ready"]]
            /\ UNCHANGED processing_stats
    /\ UNCHANGED <<phone_cache, pc, raw_numbers, valid_numbers, invalid_numbers,
                   duplicates_removed,
                   unique_numbers, batch_i, all_results, results, report, runs,
                   timeline, cache_lock, stats_lock, incs>>

\* app.py:113-130: the top of one loop iteration up to the call of
\* session.post: the backoff sleep and the retry count, then the request.
BeginAttempt(h, j, jitter) ==
    /\ j \in 1..Len(futs[h])
    /\ futs[h][j].st = "ready"
    /\ LET f == futs[h][j]
           counted == CountsRetry(f.attempt)
       IN /\ counted => LockFree(stats_lock)
          /\ processing_stats' =
                IF counted
                THEN [processing_stats EXCEPT !.retries = @ + 1]
                ELSE processing_stats
          /\ incs' = IF counted THEN [incs EXCEPT !.retries = @ + 1] ELSE incs
          /\ futs' = [futs EXCEPT ![h][j] =
                        [f EXCEPT !.st = "inflight",
                                  !.posts = @ + 1,
                                  !.wire = @ + 1,
                                  !.retry_incs = IF counted THEN @ + 1 ELSE @,
                                  !.wait = IF counted
                                           THEN @ + BackoffDelay(f.attempt, jitter)
                                           ELSE @]]
    /\ UNCHANGED <<phone_cache, pc, raw_numbers, valid_numbers, invalid_numbers,
                   duplicates_removed,
                   unique_numbers, batch_i, all_results, results, report, runs,
                   timeline, cache_lock, stats_lock>>

\* app.py:126-182: session.post returns or raises (after `resends` further
\* sends by the adapter), and the rest of the iteration runs: success, another
\* iteration, or the exit of the loop into the failure return.
Receive(h, j, outcome, resends, payload, rate_jitter) ==
    /\ j \in 1..Len(futs[h])
    /\ futs[h][j].st = "inflight"
    /\ LET f == [futs[h][j] EXCEPT !.resp = outcome, !.wire = @ + resends,
                                   !.wait = 0] IN
       IF outcome = "200"
       THEN LET result == <<payload, None>> IN
            /\ LockFree(cache_lock)
            /\ LockFree(stats_lock)
            /\ phone_cache' = IF CachesResult(outcome)
                              THEN CachePut(phone_cache, f.phone, result)
                              ELSE phone_cache
            /\ processing_stats' = [processing_stats EXCEPT !.success = @ + 1]
            /\ incs' = [incs EXCEPT !.success = @ + 1]
            /\ futs' = [futs EXCEPT ![h][j] =
                          [f EXCEPT !.st = "returned", !.result = result]]
       ELSE LET last_error == LastErrorAfter(f.last_error, outcome) IN
            IF LoopContinues(outcome, f.attempt)
            THEN /\ futs' = [futs EXCEPT ![h][j] =
                               [f EXCEPT !.st = "ready",
                                         !.attempt = @ + 1,
                                         !.last_error = last_error,
                                         !.wait = IF outcome = "429"
                                                  THEN RateLimitDelay(f.attempt, rate_jitter)
                                                  ELSE 0]]
                 /\ UNCHANGED <<phone_cache, processing_stats, incs>>
            ELSE LET result == <<None, last_error>> IN
                 /\ LockFree(stats_lock)
                 /\ phone_cache' = IF CachesResult(outcome)
                                   THEN CachePut(phone_cache, f.phone, result)
                                   ELSE phone_cache
                 /\ processing_stats' = [processing_stats EXCEPT !.failed = @ + 1]
                 /\ incs' = [incs EXCEPT !.failed = @ + 1]
                 /\ futs' = [futs EXCEPT ![h][j] =
                               [f EXCEPT !.st = "returned",
                                         !.last_error = last_error,
                                         !.result = result]]
    /\ UNCHANGED <<pc, raw_numbers, valid_numbers, invalid_numbers,
                   duplicates_removed, unique_numbers, batch_i,
                   all_results, results, report, runs, timeline, cache_lock,
                   stats_lock>>

(***************************************************************************)
(* check_courier_api_with_retry again, one step per lock operation: a      *)
(* `with lock:` block is entered, runs and is left in steps of its own,    *)
(* and `processing_stats[c] += 1` loads the counter and stores it in two.  *)
(***************************************************************************)
\* What a request thread owns, untouched by the pool workers.
HandlerVars ==
    <<pc, raw_numbers, valid_numbers, invalid_numbers, duplicates_removed,
      unique_numbers, batch_i, all_results, results, report, runs, timeline>>

\* The counter a worker is about to increment, by its position.
Counter(st) ==
    CASE st \in {"retry", "retry_locked"} -> "retries"
      [] st \in {"succ", "succ_locked"} -> "success"
      [] st \in {"fail", "fail_locked"} -> "failed"

\* app.py:105: with cache_lock, entered by the worker that picks the call up.
CacheEnter(h, j) ==
    /\ j \in 1..Len(futs[h])
    /\ futs[h][j].st = "pending"
    /\ \A k \in 1..(j - 1) : futs[h][k].st # "pending"
    /\ WorkerFree(futs[h])
    /\ LockFree(cache_lock)
    /\ cache_lock' = <<h, j>>
    /\ futs' = [futs EXCEPT ![h][j].st = "cache_locked"]
    /\ UNCHANGED <<phone_cache, processing_stats, stats_lock, incs, HandlerVars>>

\* app.py:106: if phone in phone_cache; on a miss the block is left.
CacheCheck(h, j) ==
    /\ j \in 1..Len(futs[h])
    /\ futs[h][j].st = "cache_locked"
    /\ IF futs[h][j].phone \in DOMAIN phone_cache
       THEN /\ futs' = [futs EXCEPT ![h][j].st = "hit_log"]
            /\ UNCHANGED cache_lock
       ELSE /\ futs' = [futs EXCEPT ![h][j].st = "ready"]
            /\ cache_lock' = Released(cache_lock)
    /\ UNCHANGED <<phone_cache, processing_stats, stats_lock, incs, HandlerVars>>

\* app.py:108-109: logger.info inside the block, then the return from it.
HitReturn(h, j) ==
    /\ j \in 1..Len(futs[h])
    /\ futs[h][j].st = "hit_log"
    /\ futs' = [futs EXCEPT ![h][j] =
                  [@ EXCEPT !.st = "returned", !.hit = TRUE,
                            !.result = phone_cache[futs[h][j].phone]]]
    /\ processing_stats' = StatsAfterHit(processing_stats)
    /\ cache_lock' = Released(cache_lock)
    /\ UNCHANGED <<phone_cache, stats_lock, incs, HandlerVars>>

\* app.py:116-119: the backoff sleep of an iteration after the first.
Sleep(h, j) ==
    /\ j \in 1..Len(futs[h])
    /\ futs[h][j].st = "ready"
    /\ futs' = [futs EXCEPT ![h][j].st =
                  IF CountsRetry(futs[h][j].attempt) THEN "retry" ELSE "post"]
    /\ UNCHANGED <<phone_cache, processing_stats, cache_lock, stats_lock, incs,
                   HandlerVars>>

\* app.py:121-122, 141-142, 178-179: with stats_lock is entered and the
\* counter is loaded.
CountEnter(h, j) ==
    /\ j \in 1..Len(futs[h])
    /\ futs[h][j].st \in {"retry", "succ", "fail"}
    /\ LockFree(stats_lock)
    /\ stats_lock' = <<h, j>>
    /\ futs' = [futs EXCEPT ![h][j] =
                  [@ EXCEPT !.tmp = processing_stats[Counter(futs[h][j].st)],
                            !.st = CASE @ = "retry" -> "retry_locked"
                                     [] @ = "succ" -> "succ_locked"
                                     [] @ = "fail" -> "fail_locked"]]
    /\ UNCHANGED <<phone_cache, processing_stats, cache_lock, incs, HandlerVars>>

\* app.py:122, 142, 179: the loaded value plus one is stored and the block is
\* left; after success and failed the lookup logs and returns.
CountStore(h, j) ==
    /\ j \in 1..Len(futs[h])
    /\ futs[h][j].st \in {"retry_locked", "succ_locked", "fail_locked"}
    /\ LET f == futs[h][j]
           c == Counter(f.st)
       IN /\ processing_stats' = [processing_stats EXCEPT ![c] = f.tmp + 1]
          /\ incs' = [incs EXCEPT ![c] = @ + 1]
          /\ futs' = [futs EXCEPT ![h][j] =
                        [f EXCEPT !.st = IF c = "retries" THEN "post" ELSE "returned",
                                  !.retry_incs = IF c = "retries" THEN @ + 1 ELSE @,
                                  !.tmp = 0]]
    /\ stats_lock' = Released(stats_lock)
    /\ UNCHANGED <<phone_cache, cache_lock, HandlerVars>>

\* app.py:126-130: session.post is called.
Send(h, j) ==
    /\ j \in 1..Len(futs[h])
    /\ futs[h][j].st = "post"
    /\ futs' = [futs EXCEPT ![h][j] =
                  [@ EXCEPT !.st = "inflight", !.posts = @ + 1, !.wire = @ + 1]]
    /\ UNCHANGED <<phone_cache, processing_stats, cache_lock, stats_lock, incs,
                   HandlerVars>>

\* app.py:126-175: session.post returns or raises and the branch of the
\* outcome runs up to its first lock, its continue or the end of the loop.
Respond(h, j, outcome, resends, payload) ==
    /\ j \in 1..Len(futs[h])
    /\ futs[h][j].st = "inflight"
    /\ LET f == [futs[h][j] EXCEPT !.resp = outcome, !.wire = @ + resends]
           last_error == LastErrorAfter(f.last_error, outcome)
       IN futs' = [futs EXCEPT ![h][j] =
                     IF outcome = "200"
                     THEN [f EXCEPT !.st = "put", !.result = <<payload, None>>]
                     ELSE IF LoopContinues(outcome, f.attempt)
                     THEN [f EXCEPT !.st = "ready", !.attempt = @ + 1,
                                    !.last_error = last_error]
                     ELSE [f EXCEPT !.st = "fail", !.last_error = last_error,
                                    !.result = <<None, last_error>>]]
    /\ UNCHANGED <<phone_cache, processing_stats, cache_lock, stats_lock, incs,
                   HandlerVars>>

\* app.py:138-139: with cache_lock: phone_cache[phone] = result.
CacheStore(h, j) ==
    /\ j \in 1..Len(futs[h])
    /\ futs[h][j].st = "put"
    /\ LockFree(cache_lock)
    /\ phone_cache' = IF CachesResult(futs[h][j].resp)
                      THEN CachePut(phone_cache, futs[h][j].phone, futs[h][j].result)
                      ELSE phone_cache
    /\ futs' = [futs EXCEPT ![h][j].st = "succ"]
    /\ UNCHANGED <<processing_stats, cache_lock, stats_lock, incs, HandlerVars>>

\* app.py:209-220: as_completed yields a finished future; its tuple is
\* appended to results.
Collect(h, j) ==
    /\ pc[h] = "collect"
    /\ j \in 1..Len(futs[h])
    /\ futs[h][j].st = "returned"
    /\ LET f == futs[h][j] IN
       /\ results' = [results EXCEPT ![h] = Collected(@, f)]
       /\ futs' = [futs EXCEPT ![h][j] =
                     [NewFuture(f.phone) EXCEPT !.st = "collected",
                                                !.resp = f.resp,
                                                !.result = f.result]]
    /\ UNCHANGED <<phone_cache, processing_stats, pc, raw_numbers,
                   valid_numbers, invalid_numbers,
                   duplicates_removed, unique_numbers, batch_i, all_results,
                   report, runs, timeline, cache_lock, stats_lock, incs>>

\* app.py:221-225, 1090-1101: the pool shuts down, the batch returns, its
\* results are appended to all_results and the pause after it is slept.
BatchEnd(h) ==
    /\ pc[h] = "collect"
    /\ BatchDrained(futs[h])
    /\ timeline' = [timeline EXCEPT ![h] =
                       @ \o <<"done">>
                         \o (IF PausesAfter(BatchNum(batch_i[h]),
                                            TotalBatches(unique_numbers[h]))
                             THEN <<"pause_between">> ELSE <<>>)]
    /\ all_results' = [all_results EXCEPT ![h] = Extended(@, results[h])]
    /\ batch_i' = [batch_i EXCEPT ![h] = @ + BATCH_SIZE]
    /\ results' = [results EXCEPT ![h] = <<>>]
    /\ futs' = [futs EXCEPT ![h] = <<>>]
    /\ pc' = [pc EXCEPT ![h] = "loop"]
    /\ UNCHANGED <<phone_cache, processing_stats, raw_numbers, valid_numbers, invalid_numbers,
                   duplicates_removed,
                   unique_numbers, report, runs, cache_lock, stats_lock,
                   incs>>

\* app.py:1103-1104, 244-255: create_excel_report reads the statistics.
Report(h) ==
    /\ pc[h] = "loop"
    /\ batch_i[h] >= Len(unique_numbers[h])
    /\ LockFree(stats_lock)
    /\ report' = [report EXCEPT ![h] = processing_stats]
    /\ pc' = [pc EXCEPT ![h] = "finished"]
    /\ UNCHANGED <<phone_cache, processing_stats, raw_numbers, valid_numbers, invalid_numbers,
                   duplicates_removed,
                   unique_numbers, batch_i, all_results, results, futs, runs,
                   timeline, cache_lock, stats_lock, incs>>

\* app.py:1103-1104, 246: create_excel_report enters with stats_lock.
ReportEnter(h) ==
    /\ pc[h] = "loop"
    /\ batch_i[h] >= Len(unique_numbers[h])
    /\ LockFree(stats_lock)
    /\ stats_lock' = <<h, 0>>
    /\ pc' = [pc EXCEPT ![h] = "report_locked"]
    /\ UNCHANGED <<phone_cache, processing_stats, raw_numbers, valid_numbers,
                   invalid_numbers, unique_numbers, duplicates_removed,
                   batch_i, all_results, results, futs, report, runs,
                   timeline, cache_lock, incs>>

\* app.py:247-255: the statistics are read, and len(phone_cache) with them,
\* for which cache_lock is not taken; the block is left.
ReportRead(h) ==
    /\ pc[h] = "report_locked"
    /\ report' = [report EXCEPT ![h] = processing_stats]
    /\ stats_lock' = Released(stats_lock)
    /\ pc' = [pc EXCEPT ![h] = "finished"]
    /\ UNCHANGED <<phone_cache, processing_stats, raw_numbers, valid_numbers,
                   invalid_numbers, unique_numbers, duplicates_removed,
                   batch_i, all_results, results, futs, runs,
                   timeline, cache_lock, incs>>

\* app.py:1119: with stats_lock, entered for the final statistics.
FinalStatsEnter(h) ==
    /\ pc[h] = "finished"
    /\ LockFree(stats_lock)
    /\ stats_lock' = <<h, 0>>
    /\ pc' = [pc EXCEPT ![h] = "final_log"]
    /\ UNCHANGED <<phone_cache, processing_stats, raw_numbers, valid_numbers,
                   invalid_numbers, unique_numbers, duplicates_removed,
                   batch_i, all_results, results, futs, report, runs,
                   timeline, cache_lock, incs>>

\* app.py:1120-1123: the three logger.info calls inside the block, then the
\* end of the block.
FinalStatsLog(h) ==
    /\ pc[h] = "final_log"
    /\ stats_lock' = Released(stats_lock)
    /\ pc' = [pc EXCEPT ![h] = "logged"]
    /\ UNCHANGED <<phone_cache, processing_stats, raw_numbers, valid_numbers,
                   invalid_numbers, unique_numbers, duplicates_removed,
                   batch_i, all_results, results, futs, report, runs,
                   timeline, cache_lock, incs>>

\* app.py:1125-1130 (send_file) or 1062 (redirect): the request is answered
\* and its locals are gone.
Return(h) ==
    /\ pc[h] \in {"logged", "rejected"}
    /\ timeline' = [timeline EXCEPT ![h] = <<>>]
    /\ pc' = [pc EXCEPT ![h] = "idle"]
    /\ raw_numbers' = [raw_numbers EXCEPT ![h] = <<>>]
    /\ valid_numbers' = [valid_numbers EXCEPT ![h] = <<>>]
    /\ invalid_numbers' = [invalid_numbers EXCEPT ![h] = <<>>]
    /\ unique_numbers' = [unique_numbers EXCEPT ![h] = <<>>]
    /\ duplicates_removed' = [duplicates_removed EXCEPT ![h] = 0]
    /\ batch_i' = [batch_i EXCEPT ![h] = 0]
    /\ all_results' = [all_results EXCEPT ![h] = <<>>]
    /\ report' = [report EXCEPT ![h] = ZeroStats]
    /\ UNCHANGED <<phone_cache, processing_stats, results, futs, runs,
                   cache_lock, stats_lock, incs>>

\* Requests are served one after another by one request thread.
SerialHandlers == {1}

\* The steps of upload_file and process_phone_batch_robust after the arrival
\* of a request.
HandlerStep(h) ==
    \/ Validate(h)
    \/ SetTotal(h)
    \/ BatchBegin(h)
    \/ Submit(h)
    \/ \E j \in 1..BATCH_SIZE : Collect(h, j)
    \/ BatchEnd(h)
    \/ Report(h)
    \/ FinalStatsEnter(h)
    \/ FinalStatsLog(h)
    \/ Return(h)

\* The service and the random draws a lookup meets: in full, and cut down to
\* what the pipeline around a lookup can tell apart.
LookupService ==
    [outcomes |-> Outcomes, resends |-> AdapterResends, payloads |-> Payloads,
     jitter |-> BackoffJitter, rate_jitter |-> RateLimitJitter]

PipelineService ==
    [outcomes |-> PipelineOutcomes, resends |-> {0}, payloads |-> PipelinePayloads,
     jitter |-> {100}, rate_jitter |-> {1000}]

\* The steps of the pool workers against the service svc.
LookupStep(h, svc) ==
    \/ \E j \in 1..BATCH_SIZE : LookupStart(h, j)
    \/ \E j \in 1..BATCH_SIZE, jitter \in svc.jitter : BeginAttempt(h, j, jitter)
    \/ \E j \in 1..BATCH_SIZE, outcome \in svc.outcomes, n \in svc.resends,
          payload \in svc.payloads, rate_jitter \in svc.rate_jitter :
            Receive(h, j, outcome, n, payload, rate_jitter)

\* The whole pipeline: files of several batches, lookups running side by side.
Next ==
    \E h \in SerialHandlers :
        \/ \E upload \in Uploads : StartRun(h, upload)
        \/ RejectFile(h)
        \/ HandlerStep(h)
        \/ LookupStep(h, PipelineService)

Spec == Init /\ [][Next]_vars

\* The pipeline with its threads scheduled: every sleep ends, every request
\* returns or raises within API_TIMEOUT (app.py:129), and a thread that can
\* take a step takes one.
SpecLive == Spec /\ WF_vars(Next)

\* One lookup at a time, every outcome and every adapter behaviour: files that
\* hold one number.
NextLookup ==
    \E h \in SerialHandlers :
        \/ \E upload \in SingleUploads : StartRun(h, upload)
        \/ RejectFile(h)
        \/ HandlerStep(h)
        \/ LookupStep(h, LookupService)

SpecLookup == Init /\ [][NextLookup]_vars

\* A service that answers or times out.
ThreadService ==
    [outcomes |-> {"200", "timeout"}, resends |-> {0}, payloads |-> PipelinePayloads,
     jitter |-> {100}, rate_jitter |-> {1000}]

\* The steps of the pool workers at the grain of the locks.
LockStep(h, svc) ==
    \/ \E j \in 1..BATCH_SIZE : CacheEnter(h, j)
    \/ \E j \in 1..BATCH_SIZE : CacheCheck(h, j)
    \/ \E j \in 1..BATCH_SIZE : HitReturn(h, j)
    \/ \E j \in 1..BATCH_SIZE : Sleep(h, j)
    \/ \E j \in 1..BATCH_SIZE : CountEnter(h, j)
    \/ \E j \in 1..BATCH_SIZE : CountStore(h, j)
    \/ \E j \in 1..BATCH_SIZE : Send(h, j)
    \/ \E j \in 1..BATCH_SIZE, outcome \in svc.outcomes, n \in svc.resends,
          payload \in svc.payloads : Respond(h, j, outcome, n, payload)
    \/ \E j \in 1..BATCH_SIZE : CacheStore(h, j)

\* Workers of one run side by side, every lock operation a step: files of two
\* numbers.
LockUploads == {Distinct(2)}

NextLocks ==
    \E h \in SerialHandlers :
        \/ \E upload \in LockUploads : StartRun(h, upload)
        \/ RejectFile(h)
        \/ HandlerStep(h)
        \/ LockStep(h, ThreadService)

SpecLocks == Init /\ [][NextLocks]_vars

\* The steps of upload_file with the report's block entered and left in steps
\* of its own.
LockHandlerStep(h) ==
    \/ Validate(h)
    \/ SetTotal(h)
    \/ BatchBegin(h)
    \/ Submit(h)
    \/ \E j \in 1..BATCH_SIZE : Collect(h, j)
    \/ BatchEnd(h)
    \/ ReportEnter(h)
    \/ ReportRead(h)
    \/ FinalStatsEnter(h)
    \/ FinalStatsLog(h)
    \/ Return(h)

\* Overlapping requests and their workers, every lock operation a step: files
\* of one number, the same or another one per request.
LockThreadUploads == {<<Tok(1)>>, <<Tok(2)>>}

NextLockThreads ==
    \E h \in Handlers :
        \/ \E upload \in LockThreadUploads : StartRun(h, upload)
        \/ RejectFile(h)
        \/ LockHandlerStep(h)
        \/ LockStep(h, ThreadService)

\* Every thread that can take a step takes one: no sleep, request or log
\* write lasts for ever.
SpecLockThreads == Init /\ [][NextLockThreads]_vars /\ WF_vars(NextLockThreads)

\* Requests that overlap: every request thread of the server takes uploads,
\* each of one and the same number, against a service that answers or times
\* out.
ThreadUploads == {<<Tok(1)>>}

NextThreads ==
    \E h \in Handlers :
        \/ \E upload \in ThreadUploads : StartRun(h, upload)
        \/ RejectFile(h)
        \/ HandlerStep(h)
        \/ LookupStep(h, ThreadService)

SpecThreads == Init /\ [][NextThreads]_vars

\* The validation stage alone, on every file of InputFiles: the state in which
\* a POST has been accepted and its lines have been read, then app.py:1049-1072.
InitInput ==
    /\ phone_cache = <<>>
    /\ processing_stats = ZeroStats
    /\ \E upload \in InputFiles :
           /\ raw_numbers = [h \in Handlers |-> IF h = 1 THEN upload ELSE <<>>]
           /\ pc = [h \in Handlers |-> IF h = 1 THEN "validate" ELSE "idle"]
    /\ valid_numbers = [h \in Handlers |-> <<>>]
    /\ invalid_numbers = [h \in Handlers |-> <<>>]
    /\ unique_numbers = [h \in Handlers |-> <<>>]
    /\ duplicates_removed = [h \in Handlers |-> 0]
    /\ batch_i = [h \in Handlers |-> 0]
    /\ all_results = [h \in Handlers |-> <<>>]
    /\ results = [h \in Handlers |-> <<>>]
    /\ futs = [h \in Handlers |-> <<>>]
    /\ report = [h \in Handlers |-> ZeroStats]
    /\ runs = 1
    /\ timeline = [h \in Handlers |-> <<>>]
    /\ cache_lock = Free
    /\ stats_lock = Free
    /\ incs = ZeroIncs

NextInput == \E h \in SerialHandlers : Validate(h) \/ Return(h)

SpecInput == InitInput /\ [][NextInput]_vars

(***************************************************************************)
(* Properties.                                                             *)
(***************************************************************************)
Futures == {<<h, j>> \in Handlers \X (1..(BATCH_SIZE + 1)) : j <= Len(futs[h])}

Fut(x) == futs[x[1]][x[2]]

\* The lookups that went to the network and have returned.
ReturnedFromNetwork == {x \in Futures : Fut(x).st = "returned" /\ ~Fut(x).hit}

\* Number of tuples of a result sequence whose first component is p.
Occurrences(res, p) == Cardinality({k \in 1..Len(res) : res[k][1] = p})

\* Lookup j of handler h leaves state `from` in this step.
Leaves(h, j, from) ==
    /\ j <= Len(futs[h])
    /\ futs[h][j].st = from
    /\ j <= Len(futs'[h])
    /\ futs'[h][j].st # from

\* C1: when a run has processed its last batch, every identifier of
\* unique_numbers is the first component of exactly one tuple of all_results,
\* and all_results holds no tuple for any other identifier.
C1_EachIdentifierOnce ==
    \A h \in Handlers :
        pc[h] = "finished" =>
            /\ Len(all_results[h]) = Len(unique_numbers[h])
            /\ \A p \in Range(unique_numbers[h]) : Occurrences(all_results[h], p) = 1
            /\ \A k \in 1..Len(all_results[h]) :
                   all_results[h][k][1] \in Range(unique_numbers[h])

\* C1 witness: a finished run of more than one batch whose first batch
\* completed out of submission order, with a failure and a success in it.
C1_Witness ==
    \E h \in Handlers :
        /\ pc[h] = "finished"
        /\ Len(all_results[h]) = BATCH_SIZE + 1
        /\ all_results[h][1][1] = unique_numbers[h][2]
        /\ all_results[h][1][2] = None
        /\ all_results[h][2][2] # None

\* C2: at the end of every run success + failed = total and total is the
\* number of deduplicated identifiers of the run.
C2_SuccessPlusFailedIsTotal ==
    \A h \in Handlers :
        pc[h] = "finished" =>
            /\ processing_stats.total = Len(unique_numbers[h])
            /\ processing_stats.success + processing_stats.failed
                   = processing_stats.total

\* C3 as stated: the outcome a lookup returns, success or terminal failure,
\* is the cache's entry for its identifier.
C3_TerminalOutcomeCached ==
    \A x \in Futures :
        Fut(x).st = "returned" =>
            /\ Fut(x).phone \in DOMAIN phone_cache
            /\ phone_cache[Fut(x).phone] = Fut(x).result

\* C3 amended: only successes are cached.  The cache holds tuples without an
\* error only; a lookup that returned a success from the network has stored exactly
\* that tuple; a lookup that returned a terminal failure has left its
\* identifier uncached; a lookup served from the cache made no request and
\* returned the cached tuple.
C3_OnlySuccessCached ==
    /\ \A p \in DOMAIN phone_cache : phone_cache[p][2] = None
    /\ \A x \in Futures :
           Fut(x).st = "returned" =>
               /\ (~Fut(x).hit /\ Fut(x).result[2] = None) =>
                      /\ Fut(x).phone \in DOMAIN phone_cache
                      /\ phone_cache[Fut(x).phone] = Fut(x).result
               /\ Fut(x).result[2] # None =>
                      /\ ~Fut(x).hit
                      /\ Fut(x).wire >= 1
                      /\ Fut(x).phone \notin DOMAIN phone_cache
               /\ Fut(x).hit =>
                      /\ Fut(x).wire = 0
                      /\ Fut(x).result = phone_cache[Fut(x).phone]

\* C3 witness: in a second run, while the cache holds an earlier success, a
\* lookup has ended in terminal failure after exhausting its attempts and its
\* identifier is not cached.
C3_Witness ==
    \E x \in Futures :
        /\ runs = 2
        /\ phone_cache # <<>>
        /\ Fut(x).st = "returned"
        /\ Fut(x).result[2] = "Request timeout"
        /\ Fut(x).attempt = MAX_RETRIES
        /\ Fut(x).phone \notin DOMAIN phone_cache

\* C4: a lookup started for a cached identifier returns the cached outcome,
\* makes no session.post call and no request, and leaves phone_cache and
\* the four counters as they were.
C4_CacheHitFrame ==
    [][\A h \in Handlers, j \in 1..(BATCH_SIZE + 1) :
          (Leaves(h, j, "pending") /\ futs[h][j].phone \in DOMAIN phone_cache) =>
              /\ futs'[h][j].st = "returned"
              /\ futs'[h][j].result = phone_cache[futs[h][j].phone]
              /\ futs'[h][j].posts = 0
              /\ futs'[h][j].wire = 0
              /\ phone_cache' = phone_cache
              /\ processing_stats' = processing_stats]_vars

\* C4 witness: a lookup has returned from the cache.
C4_Witness ==
    \E x \in Futures :
        /\ Fut(x).st = "returned"
        /\ Fut(x).hit
        /\ Fut(x).result = <<"payload", None>>

\* C5: when a run starts, phone_cache holds no entry of an earlier run.
C5_CacheEmptyAtRunStart ==
    \A h \in Handlers : pc[h] = "validate" => phone_cache = <<>>

\* C6: a lookup that returned after failing every attempt with a retryable
\* outcome made at most MAX_RETRIES + 1 attempts, counted exactly MAX_RETRIES
\* retries and returned a failure; no lookup ever makes more attempts.
C6_ExhaustedLookup ==
    /\ \A x \in Futures : Fut(x).posts <= MAX_RETRIES + 1
    /\ \A x \in ReturnedFromNetwork :
           Fut(x).resp \in {"429", "500", "timeout", "request_exception"} =>
               /\ Fut(x).posts <= MAX_RETRIES + 1
               /\ Fut(x).retry_incs = MAX_RETRIES
               /\ Fut(x).result[1] = None
               /\ Fut(x).result[2] # None

\* C6 witness: a lookup has exhausted its attempts on a 429.
C6_Witness ==
    \E x \in ReturnedFromNetwork :
        /\ Fut(x).resp = "429"
        /\ Fut(x).posts = MAX_RETRIES + 1
        /\ Fut(x).retry_incs = MAX_RETRIES

\* C7: a lookup that has made an attempt has counted one retry less than it
\* has made attempts, at every moment and for every outcome observed.
C7_RetriesAreAttemptsMinusOne ==
    \A x \in Futures :
        Fut(x).posts >= 1 => Fut(x).retry_incs = Fut(x).posts - 1

\* C7 witness: a lookup has returned a success on its last allowed attempt.
C7_Witness ==
    \E x \in ReturnedFromNetwork :
        /\ Fut(x).resp = "200"
        /\ Fut(x).posts = MAX_RETRIES + 1
        /\ Fut(x).retry_incs = MAX_RETRIES

\* C8: the transport sends one request per call of session.post, so a lookup
\* sends as many requests as it makes attempts, at most MAX_RETRIES + 1.
C8_OneRequestPerAttempt ==
    \A x \in Futures :
        /\ Fut(x).wire = Fut(x).posts
        /\ Fut(x).wire <= MAX_RETRIES + 1

\* C9: when the attempt with index a < MAX_RETRIES observes a 429, the loop
\* goes on to the attempt with index a + 1, whatever the lookup observed
\* before.
C9_RateLimitRetries ==
    [][\A h \in Handlers, j \in 1..(BATCH_SIZE + 1) :
          (/\ Leaves(h, j, "inflight")
           /\ futs'[h][j].resp = "429"
           /\ futs[h][j].attempt < MAX_RETRIES) =>
              /\ futs'[h][j].st = "ready"
              /\ futs'[h][j].attempt = futs[h][j].attempt + 1]_vars

\* C9 witness: the request of the last attempt is in flight after the attempt
\* before it observed a 429, which itself followed a failed first attempt.
C9_Witness ==
    \E x \in Futures :
        /\ Fut(x).st = "inflight"
        /\ Fut(x).resp = "429"
        /\ Fut(x).attempt >= 2
        /\ Fut(x).posts = Fut(x).attempt + 1

\* C10: when an attempt raises an exception that is neither a Timeout nor a
\* RequestException, the lookup returns a failure in the same step: the
\* failed counter goes up by one, the other counters and phone_cache are
\* unchanged, and no further attempt or request is made.
C10_UnexpectedFailsFast ==
    [][\A h \in Handlers, j \in 1..(BATCH_SIZE + 1) :
          (Leaves(h, j, "inflight") /\ futs'[h][j].resp = "unexpected") =>
              /\ futs'[h][j].st = "returned"
              /\ futs'[h][j].result = <<None, "Unexpected error">>
              /\ futs'[h][j].posts = futs[h][j].posts
              /\ futs'[h][j].retry_incs = futs[h][j].retry_incs
              /\ processing_stats' =
                     [processing_stats EXCEPT !.failed = @ + 1]
              /\ phone_cache' = phone_cache]_vars

\* C10 witness: a lookup has returned "Unexpected error" from its first
\* attempt, with retries left.
C10_Witness ==
    \E x \in ReturnedFromNetwork :
        /\ Fut(x).resp = "unexpected"
        /\ Fut(x).attempt = 0
        /\ Fut(x).retry_incs = 0
        /\ Fut(x).phone \notin DOMAIN phone_cache

\* C11: the step in which the last allowed attempt of a lookup fails returns
\* the failure (None, reason of that attempt), adds one to the failed counter
\* and changes no other counter; and a run of one lookup that returned a
\* failure has counted one failure and no success.
C11_ExhaustedReturnsLastReason ==
    /\ [](\A x \in ReturnedFromNetwork :
              Fut(x).result[2] # None =>
                  /\ Fut(x).result[1] = None
                  /\ processing_stats.failed = 1
                  /\ processing_stats.success = 0)
    /\ [][\A h \in Handlers, j \in 1..(BATCH_SIZE + 1) :
             (/\ Leaves(h, j, "inflight")
              /\ futs[h][j].attempt = MAX_RETRIES
              /\ futs'[h][j].resp # "200") =>
                 /\ futs'[h][j].st = "returned"
                 /\ futs'[h][j].result[1] = None
                 /\ futs'[h][j].result[2] =
                        (CASE futs'[h][j].resp = "429" -> "Rate limit exceeded"
                           [] futs'[h][j].resp = "500" -> "API Error 500"
                           [] futs'[h][j].resp = "timeout" -> "Request timeout"
                           [] futs'[h][j].resp = "request_exception" -> "Request failed"
                           [] futs'[h][j].resp = "unexpected" -> "Unexpected error")
                 /\ processing_stats' =
                        [processing_stats EXCEPT !.failed = @ + 1]]_vars

\* C11 witness: a lookup has returned "Request timeout" from its last allowed
\* attempt, after earlier attempts that left another reason.
C11_Witness ==
    \E x \in ReturnedFromNetwork :
        /\ Fut(x).resp = "timeout"
        /\ Fut(x).attempt = MAX_RETRIES
        /\ Fut(x).result = <<None, "Request timeout">>
        /\ processing_stats.failed = 1
        /\ processing_stats.success = 0

\* The elements of s at the positions idx, in the order of s.
Pick(s, idx) ==
    [n \in 1..Cardinality(idx) |->
        s[CHOOSE k \in idx : Cardinality({m \in idx : m <= k}) = n]]

\* The decimal digits of a line, in order.
DigitsOf(x) == Pick(x, {k \in 1..Len(x) : x[k] \in (0..9) \cup {Bn7}})

\* The reference normalizer for a country code cc: 11 digits that start with
\* "01" are returned as they are, 13 digits that start with cc are returned
\* without their first 2 digits, anything else is None.
Reference(x, cc) ==
    LET d == DigitsOf(x) IN
    IF Len(d) = 11 /\ d[1] = 0 /\ d[2] = 1 THEN d
    ELSE IF Len(d) = 13 /\ [i \in 1..Len(cc) |-> d[i]] = cc
    THEN [i \in 1..11 |-> d[i + 2]]
    ELSE NoPhone

\* The validation of the lines of handler h agrees with the reference for the
\* country code cc: valid_numbers holds the reference's value of every line
\* it accepts and invalid_numbers every line it rejects, both in file order.
AgreesWithReference(h, cc) ==
    LET raw == raw_numbers[h]
        accepted == Pick(raw, {k \in 1..Len(raw) : Reference(raw[k], cc) # NoPhone})
        rejected == Pick(raw, {k \in 1..Len(raw) : Reference(raw[k], cc) = NoPhone})
    IN /\ valid_numbers[h] = [k \in 1..Len(accepted) |-> Reference(accepted[k], cc)]
       /\ invalid_numbers[h] = rejected

\* The request of handler h has been through the validation.
Validated(h) == pc[h] \notin {"idle", "validate"}

\* C12 as stated: the validation agrees with the reference that takes 13
\* digits starting with the 2-digit country code "88".
C12_AgreesWithTwoDigitCode ==
    \A h \in Handlers : Validated(h) => AgreesWithReference(h, <<8, 8>>)

\* C12 amended: the validation agrees with the reference that takes 13 digits
\* starting with "880" (and returns them without their first 2 digits), 11
\* digits starting with "01" unchanged, and nothing else.
C12_AgreesWithReference ==
    \A h \in Handlers : Validated(h) => AgreesWithReference(h, <<8, 8, 0>>)

\* C12 witness: the line "+88 01700000001" has been normalized to
\* "01700000001".
C12_Witness ==
    \E h \in Handlers :
        /\ pc[h] = "set_total"
        /\ raw_numbers[h] = <<Tok13(1)>>
        /\ valid_numbers[h] = <<Tok(1)>>
        /\ invalid_numbers[h] = <<>>

\* An identifier in canonical form: 11 ASCII digits, the first two "01".
Canonical(p) ==
    /\ Len(p) = 11
    /\ \A k \in 1..Len(p) : p[k] \in 0..9
    /\ p[1] = 0
    /\ p[2] = 1

\* C13: every identifier the normalizer returned, and so every identifier
\* that reaches the deduplication and the batches, has 11 digits of which the
\* first two are "01".
C13_CanonicalIdentifiers ==
    \A h \in Handlers :
        Validated(h) =>
            /\ \A k \in 1..Len(valid_numbers[h]) : Canonical(valid_numbers[h][k])
            /\ \A k \in 1..Len(unique_numbers[h]) : Canonical(unique_numbers[h][k])

\* The digits of a line without the 2-digit country code in front.
StripCountryCode(x) == LET d == DigitsOf(x) IN [i \in 1..(Len(d) - 2) |-> d[i + 2]]

\* C14: for every line x accepted in its 13-digit form, normalizing x without
\* its country code gives what normalizing x gives, and normalizing the
\* result again gives the result.
C14_RoundTrip ==
    \A h \in Handlers :
        Validated(h) =>
            \A k \in 1..Len(raw_numbers[h]) :
                LET x == raw_numbers[h][k] IN
                (Len(DigitsOf(x)) = 13 /\ validate_phone_number(x) # NoPhone) =>
                    /\ validate_phone_number(StripCountryCode(x))
                           = validate_phone_number(x)
                    /\ validate_phone_number(validate_phone_number(x))
                           = validate_phone_number(x)

\* C15: unique_numbers has no repeated element, it is valid_numbers reduced
\* to the first occurrence of each identifier, in the order of valid_numbers,
\* and duplicates_removed is the number of elements dropped, which is
\* len(valid_numbers) - len(unique_numbers).
C15_Deduplication ==
    \A h \in Handlers :
        pc[h] \notin {"idle", "validate", "rejected"} =>
            LET input == valid_numbers[h]
                output == unique_numbers[h]
                later == {k \in 1..Len(input) : \E m \in 1..(k - 1) : input[m] = input[k]}
            IN /\ \A a, b \in 1..Len(output) : a # b => output[a] # output[b]
               /\ output = Pick(input, (1..Len(input)) \ later)
               /\ duplicates_removed[h] = Cardinality(later)
               /\ duplicates_removed[h] = Len(input) - Len(output)

\* C15 witness: "a, b, a" has been reduced to "a, b" with one duplicate
\* removed.
C15_Witness ==
    \E h \in Handlers :
        /\ pc[h] = "set_total"
        /\ valid_numbers[h] = <<Tok(1), Tok(2), Tok(1)>>
        /\ unique_numbers[h] = <<Tok(1), Tok(2)>>
        /\ duplicates_removed[h] = 1

\* ceil(m / b), by its defining inequalities.
CeilDiv(m, b) == CHOOSE n \in 0..m : n * b >= m /\ (n - 1) * b < m

\* A batch of handler h is open: its pool exists.
InBatch(h) == pc[h] \in {"submit", "collect"}

\* C16: the batch loop starts every batch at a multiple of BATCH_SIZE; the
\* k-th batch is the k-th slice of BATCH_SIZE consecutive elements of
\* unique_numbers (the last one holding what is left, at least one); batch
\* numbers run from 1 to total_batches = ceil(M / B); and when the loop ends
\* it has run ceil(M / B) batches, whose results count M.
C16_BatchPartition ==
    \A h \in Handlers :
        LET M == Len(unique_numbers[h])
            i == batch_i[h]
            expected == IF i + BATCH_SIZE <= M THEN BATCH_SIZE ELSE M - i
        IN /\ InBatch(h) =>
                 /\ i % BATCH_SIZE = 0
                 /\ i < M
                 /\ expected \in 1..BATCH_SIZE
                 /\ BatchNum(i) = (i \div BATCH_SIZE) + 1
                 /\ BatchNum(i) <= CeilDiv(M, BATCH_SIZE)
                 /\ TotalBatches(unique_numbers[h]) = CeilDiv(M, BATCH_SIZE)
                 /\ Len(futs[h]) <= expected
                 /\ pc[h] = "collect" => Len(futs[h]) = expected
                 /\ \A j \in 1..Len(futs[h]) :
                        futs[h][j].phone = unique_numbers[h][i + j]
                 /\ Len(all_results[h]) = i
           /\ pc[h] = "finished" =>
                 /\ i = BATCH_SIZE * CeilDiv(M, BATCH_SIZE)
                 /\ Len(all_results[h]) = M

\* C16 witness: the second and last batch of a file of BATCH_SIZE + 1 numbers
\* is open and holds the one number left.
C16_Witness ==
    \E h \in Handlers :
        /\ pc[h] = "collect"
        /\ Len(unique_numbers[h]) = BATCH_SIZE + 1
        /\ batch_i[h] = BATCH_SIZE
        /\ Len(futs[h]) = 1
        /\ futs[h][1].phone = unique_numbers[h][BATCH_SIZE + 1]

\* Position of an identifier in a sequence without repeats.
IndexIn(unique, p) == CHOOSE k \in 1..Len(unique) : unique[k] = p

\* C17: at every moment the lookups that exist (submitted, running or
\* returned) belong to one batch, every identifier of the batches before it
\* has its tuple in all_results and no lookup exists between two batches; and
\* a batch ends only when every one of its lookups has returned and has been
\* collected.
C17_BatchesSequential ==
    /\ [](\A h \in Handlers :
              /\ InBatch(h) =>
                    /\ \A j \in 1..Len(futs[h]) :
                           IndexIn(unique_numbers[h], futs[h][j].phone)
                               \in (batch_i[h] + 1)..(batch_i[h] + BATCH_SIZE)
                    /\ \A k \in 1..batch_i[h] :
                           Occurrences(all_results[h], unique_numbers[h][k]) = 1
              /\ ~InBatch(h) => futs[h] = <<>>)
    /\ [][\A h \in Handlers :
             (InBatch(h) /\ ~InBatch(h)') =>
                 /\ Len(futs[h]) >= 1
                 /\ \A j \in 1..Len(futs[h]) :
                        /\ futs[h][j].st = "collected"
                        /\ Occurrences(results[h], futs[h][j].phone) = 1]_vars

\* C17 witness: a lookup of the second batch has its request in flight and
\* the first batch has delivered all its tuples.
C17_Witness ==
    \E h \in Handlers :
        /\ InBatch(h)
        /\ batch_i[h] = BATCH_SIZE
        /\ Len(all_results[h]) = BATCH_SIZE
        /\ \E j \in 1..Len(futs[h]) : futs[h][j].st = "inflight"

\* Index of the batch that holds identifier p.
BatchOf(h, p) == (IndexIn(unique_numbers[h], p) - 1) \div BATCH_SIZE

\* C18: of two tuples of all_results, the earlier one never belongs to a
\* later batch than the other.
C18_BatchOrderKept ==
    \A h \in Handlers :
        \A a, b \in 1..Len(all_results[h]) :
            a < b => BatchOf(h, all_results[h][a][1]) <= BatchOf(h, all_results[h][b][1])

\* C18 witness: a finished run of two batches whose first batch completed in
\* an order other than the order of submission.
C18_Witness ==
    \E h \in Handlers :
        /\ pc[h] = "finished"
        /\ Len(all_results[h]) = BATCH_SIZE + 1
        /\ all_results[h][1][1] = unique_numbers[h][BATCH_SIZE]
        /\ all_results[h][BATCH_SIZE][1] = unique_numbers[h][1]
        /\ all_results[h][BATCH_SIZE + 1][1] = unique_numbers[h][BATCH_SIZE + 1]

\* Lookups of handler h between the start of check_courier_api_with_retry and
\* its return.
Executing(h) == {j \in 1..Len(futs[h]) : futs[h][j].st \in {"ready", "inflight"}}

\* C19: at most MAX_WORKERS lookups are executing at any moment, and a
\* submitted lookup starts only when fewer than MAX_WORKERS are executing.
C19_AtMostMaxWorkers ==
    /\ [](\A h \in Handlers : Cardinality(Executing(h)) <= MAX_WORKERS)
    /\ [][\A h \in Handlers, j \in 1..(BATCH_SIZE + 1) :
             Leaves(h, j, "pending") => Cardinality(Executing(h)) < MAX_WORKERS]_vars

\* C19 witness: a batch larger than the pool is submitted, MAX_WORKERS of its
\* lookups are executing and another one waits.
C19_Witness ==
    \E h \in Handlers :
        /\ pc[h] = "collect"
        /\ Len(futs[h]) > MAX_WORKERS
        /\ Cardinality(Executing(h)) = MAX_WORKERS
        /\ \E j \in 1..Len(futs[h]) : futs[h][j].st = "pending"

\* C20: in an open batch every collected lookup has exactly one tuple in
\* results, holding its own outcome, and no other lookup has one; a lookup
\* that ended on an unexpected exception has the outcome (None, reason); the
\* batch ends with one tuple for each of its identifiers; and a batch in
\* which a lookup has ended on an unexpected exception does end.
C20_UnexpectedIsContained ==
    /\ [](\A h \in Handlers :
              InBatch(h) =>
                  \A j \in 1..Len(futs[h]) :
                      LET f == futs[h][j] IN
                      /\ f.st = "collected" =>
                             /\ Occurrences(results[h], f.phone) = 1
                             /\ \E k \in 1..Len(results[h]) :
                                    results[h][k] = <<f.phone, f.result[1], f.result[2]>>
                      /\ f.st # "collected" => Occurrences(results[h], f.phone) = 0
                      /\ (f.st \in {"returned", "collected"} /\ f.resp = "unexpected") =>
                             f.result = <<None, "Unexpected error">>
                      /\ (f.st \in {"returned", "collected"} /\ f.resp = "200") =>
                             f.result[2] = None)
    /\ [][\A h \in Handlers :
             (InBatch(h) /\ ~InBatch(h)') =>
                 /\ Len(results[h]) = Len(futs[h])
                 /\ all_results'[h] = all_results[h] \o results[h]]_vars
    /\ \A h \in Handlers :
           (InBatch(h) /\ \E j \in 1..Len(futs[h]) :
                             /\ futs[h][j].st = "returned"
                             /\ futs[h][j].resp = "unexpected")
               ~> (pc[h] = "loop")

\* C20 witness: a batch has collected the failure of a lookup that raised an
\* unexpected exception and, after it, the success of another lookup.
C20_Witness ==
    \E h \in Handlers :
        /\ pc[h] = "collect"
        /\ Len(results[h]) >= 2
        /\ results[h][1][3] = "Unexpected error"
        /\ results[h][1][2] = None
        /\ results[h][2][2] # None
        /\ results[h][2][3] = None

\* Number of elements of s equal to t.
Count(s, t) == Cardinality({k \in 1..Len(s) : s[k] = t})

\* C29: after the validation every raw line is in exactly one group: a line
\* the normalizer rejects is in invalid_numbers as often as it is in the
\* file, a line it accepts is not there at all, and an accepted line adds one
\* element to valid_numbers; so len(raw) = len(invalid) + len(valid), and
\* when the file has a valid line, len(raw) = len(invalid) + len(unique) +
\* duplicates_removed.
C29_TokensConserved ==
    \A h \in Handlers :
        Validated(h) =>
            LET raw == raw_numbers[h]
                invalid == invalid_numbers[h]
            IN /\ Range(invalid) \subseteq Range(raw)
               /\ \A t \in Range(raw) :
                      Count(invalid, t) =
                          IF validate_phone_number(t) = NoPhone
                          THEN Count(raw, t) ELSE 0
               /\ Len(raw) = Len(invalid) + Len(valid_numbers[h])
               /\ pc[h] = "rejected" => Len(raw) = Len(invalid)
               /\ pc[h] # "rejected" =>
                      Len(raw) = Len(invalid) + Len(unique_numbers[h])
                                     + duplicates_removed[h]

\* C29 witness: a file of three lines, one bad and two that are the same
\* number, has been classified: one invalid, one identifier, one duplicate.
C29_Witness ==
    \E h \in Handlers :
        /\ pc[h] = "set_total"
        /\ raw_numbers[h] = <<Tok(1), BadTok, Tok13(1)>>
        /\ invalid_numbers[h] = <<BadTok>>
        /\ unique_numbers[h] = <<Tok(1)>>
        /\ duplicates_removed[h] = 1

\* C23: a request that ends rejected has a file that was refused or holds no
\* valid number, and a request that goes on has one; and in every step of a
\* request up to its rejection, and in the step that answers it, phone_cache
\* stays as it is and the request has no lookup, so no request on the network.
C23_RejectionBeforeLookups ==
    /\ [](\A h \in Handlers :
              /\ pc[h] = "rejected" =>
                    /\ ValidNumbers(raw_numbers[h]) = <<>>
                    /\ futs[h] = <<>>
                    /\ results[h] = <<>>
                    /\ all_results[h] = <<>>
              /\ pc[h] \notin {"idle", "validate", "rejected"} =>
                    ValidNumbers(raw_numbers[h]) # <<>>)
    /\ [][\A h \in Handlers :
             (pc[h] \in {"idle", "validate", "rejected"} /\ pc'[h] # pc[h]) =>
                 /\ phone_cache' = phone_cache
                 /\ futs[h] = <<>>
                 /\ futs'[h] = <<>>]_vars

\* C23 witness: a file without a valid number has been rejected in a second
\* run, while the cache holds an entry of the first run.
C23_Witness ==
    \E h \in Handlers :
        /\ pc[h] = "rejected"
        /\ raw_numbers[h] = <<BadTok>>
        /\ invalid_numbers[h] = <<BadTok>>
        /\ phone_cache # <<>>
        /\ futs[h] = <<>>

\* The run of handler h has processed its last batch.
Done(h) == pc[h] \in {"finished", "final_log", "logged"}

\* C27: the timeline of a run starts with its first batch, with no pause in
\* front; every later batch comes after the end of the batch before it, the
\* pause between batches and the pause before the batch, in this order; every
\* pause is followed by a batch; and the timeline of a run that has processed
\* its last batch ends with the end of that batch, not with a pause.
C27_PacingPauses ==
    \A h \in Handlers :
        LET t == timeline[h] IN
        /\ t # <<>> => t[1] = "batch"
        /\ \A k \in 2..Len(t) :
               /\ t[k] = "batch" =>
                      /\ k >= 5
                      /\ t[k - 1] = "pause_before"
                      /\ t[k - 2] = "pause_between"
                      /\ t[k - 3] = "done"
               /\ t[k] = "done" => t[k - 1] = "batch"
               /\ t[k] = "pause_between" => t[k - 1] = "done"
               /\ t[k] = "pause_before" => t[k - 1] = "pause_between"
        /\ InBatch(h) =>
               /\ t # <<>>
               /\ t[Len(t)] = "batch"
               /\ Cardinality({k \in 1..Len(t) : t[k] = "batch"}) = BatchNum(batch_i[h])
        /\ Done(h) =>
               /\ t # <<>>
               /\ t[Len(t)] = "done"
               /\ Cardinality({k \in 1..Len(t) : t[k] = "pause_between"})
                      = CeilDiv(Len(unique_numbers[h]), BATCH_SIZE) - 1

\* C27 witness: a run of two batches has processed its last batch.
C27_Witness ==
    \E h \in Handlers :
        /\ pc[h] = "finished"
        /\ timeline[h] = <<"batch", "done", "pause_between", "pause_before",
                           "batch", "done">>

\* C24: every lookup that has been submitted returns an outcome, and every
\* request that has been accepted reaches the creation of its report or is
\* rejected for want of a valid number.
C24_RunsTerminate ==
    /\ \A h \in Handlers, j \in 1..BATCH_SIZE :
           (j <= Len(futs[h]) /\ futs[h][j].st = "pending")
               ~> (j <= Len(futs[h]) /\ futs[h][j].st = "returned")
    /\ \A h \in Handlers :
           (pc[h] = "validate") ~> (pc[h] \in {"finished", "rejected"})
    /\ \A h \in Handlers : (pc[h] = "set_total") ~> (pc[h] = "finished")

\* C24 witness: a run has created its report with a success, a failure after
\* all retries and a failure on an unexpected exception among its results.
C24_Witness ==
    \E h \in Handlers :
        /\ pc[h] = "finished"
        /\ \E k \in 1..Len(all_results[h]) : all_results[h][k][3] = None
        /\ \E k \in 1..Len(all_results[h]) : all_results[h][k][3] = "Request timeout"
        /\ \E k \in 1..Len(all_results[h]) : all_results[h][k][3] = "Unexpected error"

\* C25: every tuple of a batch's results and of a run's results has exactly
\* one of payload and error set.
C25_ExactlyOneOfPayloadAndError ==
    \A h \in Handlers :
        /\ \A k \in 1..Len(results[h]) :
               (results[h][k][2] # None) # (results[h][k][3] # None)
        /\ \A k \in 1..Len(all_results[h]) :
               (all_results[h][k][2] # None) # (all_results[h][k][3] # None)

\* C28: a request sent after the attempt with index a observed a 429 has been
\* waited for BASE_DELAY * 3^a + j milliseconds, j between 1000 and 3000.
C28_WaitAfterRateLimit ==
    \A x \in Futures :
        (Fut(x).st = "inflight" /\ Fut(x).attempt >= 1 /\ Fut(x).resp = "429") =>
            LET a == Fut(x).attempt - 1 IN
            Fut(x).wait - 300 * Pow(3, a) \in 1000..3000

\* Request thread h is between the reset of its run and the snapshot that
\* create_excel_report takes of the statistics.
InRun(h) == pc[h] \notin {"idle", "rejected", "finished", "final_log", "logged"}

\* C22: the arrival of a request resets the statistics to zero, and while a
\* run is between its reset and its snapshot for the report no counter
\* decreases, whichever request thread takes the step.
C22_ResetThenMonotone ==
    [][\A h \in Handlers :
          /\ (pc[h] = "idle" /\ pc'[h] # "idle") => processing_stats' = ZeroStats
          /\ (InRun(h) /\ pc'[h] \notin {"idle", "rejected", "finished", "final_log", "logged"}) =>
                 \A c \in DOMAIN ZeroStats : processing_stats'[c] >= processing_stats[c]
      ]_vars

\* C30: no request is sent for an identifier that the cache holds, also when
\* lookups of one identifier from overlapping runs start while it is uncached.
C30_NoRequestOnceCached ==
    [][\A x \in Futures :
          (/\ x[2] <= Len(futs'[x[1]])
           /\ futs'[x[1]][x[2]].phone = Fut(x).phone
           /\ futs'[x[1]][x[2]].posts > Fut(x).posts) =>
              Fut(x).phone \notin DOMAIN phone_cache
      ]_vars

\* C21: when every worker of the run has finished, each of success, failed
\* and retries equals the number of increments the workers performed on it.
C21_NoLostUpdate ==
    \A h \in Handlers :
        (pc[h] = "collect" /\ Running(futs[h]) = {}
            /\ \A j \in 1..Len(futs[h]) : futs[h][j].st # "pending") =>
            \A c \in DOMAIN ZeroIncs : processing_stats[c] = incs[c]

\* Two workers of one batch have finished and both have incremented counters.
C21_Witness ==
    \E h \in Handlers :
        /\ pc[h] = "collect"
        /\ Len(futs[h]) = 2
        /\ \A j \in 1..2 : futs[h][j].st = "returned" /\ ~futs[h][j].hit
        /\ incs.success + incs.failed = 2
        /\ incs.retries >= 2

\* C26: a thread that holds cache_lock or stats_lock is not at a log write,
\* a request or a sleep.
C26_NoIOUnderLock ==
    /\ \A x \in Futures : Fut(x).st = "hit_log" => cache_lock # x
    /\ \A h \in Handlers : pc[h] = "final_log" => stats_lock # <<h, 0>>

\* The threads that take the locks: <<h, 0>> is request thread h, <<h, j>>
\* the worker that runs the j-th call of h's batch.
Threads == {<<h, 0>> : h \in Handlers} \cup Futures

\* Thread t stands before a `with stats_lock:` (app.py:121, 141, 178 for a
\* worker; 246, 1077, 1119 for a request thread).
WantsStats(t) ==
    IF t[2] = 0
    THEN \/ pc[t[1]] \in {"set_total", "finished"}
         \/ pc[t[1]] = "loop" /\ batch_i[t[1]] >= Len(unique_numbers[t[1]])
    ELSE Fut(t).st \in {"retry", "succ", "fail"}

\* Thread t stands before a `with cache_lock:` (app.py:106, 138).
WantsCache(t) == t[2] # 0 /\ Fut(t).st \in {"pending", "put"}

\* C31: no thread holds cache_lock and stats_lock at the same time, no thread
\* that holds one of them stands before the block of the other, and a lock
\* that is held is released again: the two locks never deadlock.
C31_LocksNeverNested ==
    /\ [](\A t \in Threads :
             /\ ~(cache_lock = t /\ stats_lock = t)
             /\ cache_lock = t => ~WantsStats(t)
             /\ stats_lock = t => ~WantsCache(t))
    /\ (cache_lock # Free) ~> (cache_lock = Free)
    /\ (stats_lock # Free) ~> (stats_lock = Free)

\* Both locks are held at once, by a worker and by a thread of the other
\* request.
C31_Witness ==
    /\ cache_lock # Free
    /\ stats_lock # Free
    /\ cache_lock[1] # stats_lock[1]
    /\ cache_lock \in Futures

====
